---- MODULE Spec2Model ----
(***************************************************************************)
(* A model of scripts/build-registry.mts: the registry build pipeline.     *)
(*                                                                         *)
(*   aggregation and validation -> buildRegistry -> buildBlockRegistry     *)
(*   -> buildStyles -> buildThemes -> success marker                       *)
(*                                                                         *)
(* JavaScript values are encoded uniformly so that they stay comparable:   *)
(*   - `undefined` is the string Undefined;                                *)
(*   - an optional array is a record [defined, refs];                      *)
(*   - a file reference is a record [kind, path, type, target], kind       *)
(*     "string" for a bare path (its .path, .type and .target are          *)
(*     undefined, as property reads of a JS string primitive are);         *)
(*   - a colour string such as hsl(210,40%,98%) is a sequence of           *)
(*     one-character strings, so that the regular expressions of the       *)
(*     colour index are computed and not assumed;                          *)
(*   - a colour-mapping value is the sequence of its "-"-separated parts.  *)
(* Item fields no claim reads (description, dependencies, categories) are  *)
(* left out of the records.                                                *)
(***************************************************************************)
EXTENDS Integers, Sequences, FiniteSets, TLC

VARIABLES
    registry,      \* [...registry, ...content]: the merged item list of this run
    disk,          \* readable source files: absolute path -> content
    colors,        \* registry-colors: which raw colour table is imported (ColorsOf)
    sample,        \* registry-colors: one more colour of the table, its strings in parts
    colorMapping,  \* registry-colors: mode -> semantic key -> value
    pc,            \* position of the top-level pipeline
    i,             \* buildStyles: index of the item of the for-of loop
    pending,       \* buildStyles: reads of the current item not yet settled
    results,       \* buildStyles: Promise.all's result list of the current item
    bi,            \* buildThemes: index of the outer base-colour loop
    indexTs,       \* __registry__/index.ts
    indexJson,     \* public/r/index.json
    blockTs,       \* __registry__/block.ts
    styles,        \* public/r/styles/<name>.json
    colorsIndex,   \* public/r/colors/index.json
    colorsDir,     \* public/r/colors/<base>.json
    themesCss,     \* public/r/themes.css
    themesDir,     \* public/r/themes/<base>.json
    stderr,        \* console.error, in order
    stdout,        \* console.log, in order
    exitCode,      \* the process's exit code, NoExit while it runs
    touched,       \* output files written or deleted by this run
    runs           \* runs of the script started so far

vars == <<registry, disk, colors, sample, colorMapping, pc, i, pending, results, bi,
          indexTs, indexJson, blockTs, styles, colorsIndex, colorsDir,
          themesCss, themesDir, stderr, stdout, exitCode, touched, runs>>

inputVars == <<registry, disk, colors, sample, colorMapping>>
loopVars == <<i, pending, results, bi>>
registryFiles == <<indexTs, indexJson, blockTs>>
themeFiles == <<colorsIndex, colorsDir, themesCss, themesDir>>

\* ------------------------------------------------------------------------
\* Bounds of the model.
\* ------------------------------------------------------------------------
MaxItems == 2
MaxRuns == 2

\* ------------------------------------------------------------------------
\* Encodings.
\* ------------------------------------------------------------------------
Undefined == "#undefined"
NoFile == "#nofile"
NoExit == -1
NaN == -1

\* A template literal `${v}` renders undefined as the text "undefined".
TemplateStr(v) == IF v = Undefined THEN "undefined" ELSE v

\* v ?? ""
OrEmpty(v) == IF v = Undefined THEN "" ELSE v

SeqToSet(s) == {s[k] : k \in 1..Len(s)}

\* ------------------------------------------------------------------------
\* Paths.
\* ------------------------------------------------------------------------
Cwd == "cwd"
ContentDir == "cwd/components/content/inspira"
ImportRoot == "@/components/content/inspira/"
FileRoot == "components/content/inspira/"

REGISTRY_INDEX_WHITELIST ==
    {"registry:ui", "registry:block", "registry:example", "registry:hook"}

\* registryItemTypeSchema: the item types of the schema.
ItemTypes == REGISTRY_INDEX_WHITELIST \cup {"registry:lib"}

\* item.type.split(":")[1]
TypeSuffix(t) ==
    CASE t = "registry:ui" -> "ui"
      [] t = "registry:block" -> "block"
      [] t = "registry:example" -> "example"
      [] t = "registry:hook" -> "hook"
      [] t = "registry:lib" -> "lib"
      [] OTHER -> Undefined

\* ------------------------------------------------------------------------
\* File references and items.
\* ------------------------------------------------------------------------
BareFile(p) == [kind |-> "string", path |-> p, type |-> Undefined, target |-> Undefined]
ObjFile(p, t) == [kind |-> "object", path |-> p, type |-> t, target |-> Undefined]

\* file.path, file.type, file.target as the code reads them: a property of a
\* string primitive is undefined.
PathOf(f) == IF f.kind = "string" THEN Undefined ELSE f.path
TypeOf(f) == IF f.kind = "string" THEN Undefined ELSE f.type
TargetOf(f) == IF f.kind = "string" THEN Undefined ELSE f.target

\* typeof file === "string" ? file : file.path
StringOrPath(f) == f.path

NoFiles == [defined |-> FALSE, refs |-> <<>>]
Files(s) == [defined |-> TRUE, refs |-> s]
Item(n, t, fs) == [name |-> n, type |-> t, files |-> fs]

FA == ObjFile("ui/a.vue", "registry:ui")
FB == ObjFile("ui/b.vue", "registry:ui")
FM == ObjFile("ui/missing.vue", "registry:ui")
FS == BareFile("ui/s.vue")
FH == ObjFile("composables/h.ts", "registry:hook")

ItemPool ==
    { Item("a", "registry:ui", Files(<<FA>>)),
      Item("a", "registry:ui", Files(<<FA, FM>>)),
      Item("b", "registry:block", Files(<<FB, FA>>)),
      Item("b", "registry:block", Files(<<>>)),
      Item("c", "registry:ui", NoFiles),
      Item("s", "registry:ui", Files(<<FS>>)),
      Item("l", "registry:lib", Files(<<FA>>)),
      Item("h", "registry:hook", Files(<<FH>>)),
      Item(Undefined, "registry:ui", Files(<<FA>>)) }

ItemNames == {"a", "b", "c", "s", "l", "h"}

RegistryInputs == UNION {[1..n -> ItemPool] : n \in 0..MaxItems}

AbsPaths ==
    { <<ContentDir, "ui/a.vue">>, <<ContentDir, "ui/b.vue">>,
      <<ContentDir, "ui/missing.vue">>, <<ContentDir, "ui/s.vue">>,
      <<Cwd, "composables/h.ts">>, <<ContentDir, "composables/h.ts">> }

DiskOf(present) ==
    [p \in AbsPaths |-> IF p \in present THEN <<"source of", p[2]>> ELSE <<NoFile>>]

DiskInputs ==
    { DiskOf({<<ContentDir, "ui/a.vue">>, <<ContentDir, "ui/b.vue">>,
              <<ContentDir, "ui/s.vue">>, <<Cwd, "composables/h.ts">>}),
      DiskOf({<<ContentDir, "ui/a.vue">>, <<ContentDir, "ui/s.vue">>}) }

\* ------------------------------------------------------------------------
\* The schema (registry/schema): an entry has a name, a type of the enum and
\* an optional list of file references, each a bare path or a structured
\* record with a path and a type.
\* ------------------------------------------------------------------------
ValidFileRef(f) ==
    IF f.kind = "string"
    THEN f.path # Undefined
    ELSE f.path # Undefined /\ f.type \in ItemTypes

EntryOk(item) ==
    /\ item.name # Undefined
    /\ item.type \in ItemTypes
    /\ item.files.defined => \A k \in 1..Len(item.files.refs) : ValidFileRef(item.files.refs[k])

\* registrySchema.safeParse(list).success
RegistryOk(list) == \A k \in 1..Len(list) : EntryOk(list[k])

\* ------------------------------------------------------------------------
\* buildRegistry: __registry__/index.ts and public/r/index.json.
\* ------------------------------------------------------------------------
ConventionalPath(item) == <<ImportRoot, TemplateStr(TypeSuffix(item.type)), "/", TemplateStr(item.name)>>

\* `@/components/content/inspira/${item.files[0].path}`
FirstFilePath(item) == <<ImportRoot, TemplateStr(PathOf(item.files.refs[1]))>>

ComponentPath(item) ==
    IF item.files.defined /\ Len(item.files.refs) > 0
    THEN FirstFilePath(item)
    ELSE ConventionalPath(item)

\* One element of the rendered files array.
RenderFile(f, withRaw) ==
    IF f.kind = "string"
    THEN [kind |-> "string", path |-> <<Cwd, "/", FileRoot, StringOrPath(f)>>,
          type |-> Undefined, target |-> Undefined, raw |-> <<>>]
    ELSE [kind |-> "object", path |-> <<FileRoot, StringOrPath(f)>>,
          type |-> TemplateStr(f.type), target |-> OrEmpty(f.target),
          raw |-> IF withRaw THEN <<"@/", FileRoot, StringOrPath(f), "?raw">> ELSE <<>>]

IndexEntry(item, withRaw) ==
    [name |-> TemplateStr(item.name),
     type |-> item.type,
     files |-> [k \in 1..Len(item.files.refs) |-> RenderFile(item.files.refs[k], withRaw)],
     component |-> ComponentPath(item),
     raw |-> IF withRaw THEN ComponentPath(item) \o <<"?raw">> ELSE <<>>]

\* The skip as it would be if it tested the number of files.
SkipsEvenEmpty(item) == ~item.files.defined \/ Len(item.files.refs) = 0

\* if (!resolveFiles) continue: only an absent files list is falsy.
SkipsItem(item) == ~item.files.defined

IndexEntries(reg) ==
    LET kept == SelectSeq(reg, LAMBDA it : ~SkipsItem(it))
    IN  [k \in 1..Len(kept) |-> IndexEntry(kept[k], FALSE)]

BlockEntries(reg) ==
    LET kept == SelectSeq(reg, LAMBDA it : it.type = "registry:block" /\ ~SkipsItem(it))
    IN  [k \in 1..Len(kept) |-> IndexEntry(kept[k], TRUE)]

IndexJsonItems(reg) ==
    LET kept == SelectSeq(reg, LAMBDA it : it.type \in {"registry:ui"})
    IN  [k \in 1..Len(kept) |->
            [name |-> kept[k].name, type |-> kept[k].type,
             files |-> IF kept[k].files.defined
                       THEN Files([j \in 1..Len(kept[k].files.refs) |->
                                [path |-> PathOf(kept[k].files.refs[j]), type |-> kept[k].type]])
                       ELSE NoFiles]]

\* fs.writeFile may reject (disk full, permissions): the error escapes.
IoOutcomes == {"ok", "throw"}

\* process.exit(1) after console.error(error)
Fail(error) ==
    /\ stderr' = Append(stderr, error)
    /\ exitCode' = 1
    /\ pc' = "exited"

\* ------------------------------------------------------------------------
\* buildThemes: the flat colour index (colorsData).
\* ------------------------------------------------------------------------
DigitChars == {"0", "1", "2", "3", "4", "5", "6", "7", "8", "9"}

\* \d+
IsInt(s) == Len(s) > 0 /\ \A k \in 1..Len(s) : s[k] \in DigitChars

\* [\d.]+
IsNum(s) == Len(s) > 0 /\ \A k \in 1..Len(s) : s[k] \in DigitChars \cup {"."}

\* [\d.]+%
IsPct(s) == Len(s) > 1 /\ s[Len(s)] = "%" /\ IsNum(SubSeq(s, 1, Len(s) - 1))

RECURSIVE SplitOn(_, _)
SplitOn(s, sep) ==
    LET at == {k \in 1..Len(s) : s[k] = sep}
    IN  IF at = {}
        THEN <<s>>
        ELSE LET k == CHOOSE x \in at : \A y \in at : x <= y
             IN  <<SubSeq(s, 1, k - 1)>> \o SplitOn(SubSeq(s, k + 1, Len(s)), sep)

\* The text between a prefix such as rgb( and the closing parenthesis, cut
\* at the commas; <<>> when the string has not that frame.
Framed(s, prefix) ==
    IF /\ Len(s) > Len(prefix)
       /\ SubSeq(s, 1, Len(prefix)) = prefix
       /\ s[Len(s)] = ")"
    THEN SplitOn(SubSeq(s, Len(prefix) + 1, Len(s) - 1), ",")
    ELSE <<>>

\* "$1 $2 $3"
Spaced(parts) == parts[1] \o <<" ">> \o parts[2] \o <<" ">> \o parts[3]

\* item.rgb.replace(/^rgb\((\d+),(\d+),(\d+)\)$/, "$1 $2 $3")
RgbChannel(s) ==
    LET parts == Framed(s, <<"r", "g", "b", "(">>)
    IN  IF Len(parts) = 3 /\ \A k \in 1..3 : IsInt(parts[k])
        THEN Spaced(parts)
        ELSE s

\* HslChannel as it would be with the percent signs outside the groups,
\* /^hsl\(([\d.]+),([\d.]+)%,([\d.]+)%\)$/: the channel loses them.
HslChannelBare(s) ==
    LET parts == Framed(s, <<"h", "s", "l", "(">>)
    IN  IF Len(parts) = 3 /\ IsNum(parts[1]) /\ IsPct(parts[2]) /\ IsPct(parts[3])
        THEN Spaced(<<parts[1],
                      SubSeq(parts[2], 1, Len(parts[2]) - 1),
                      SubSeq(parts[3], 1, Len(parts[3]) - 1)>>)
        ELSE s

\* item.hsl.replace(/^hsl\(([\d.]+),([\d.]+%),([\d.]+%)\)$/, "$1 $2 $3")
HslChannel(s) ==
    LET parts == Framed(s, <<"h", "s", "l", "(">>)
    IN  IF Len(parts) = 3 /\ IsNum(parts[1]) /\ IsPct(parts[2]) /\ IsPct(parts[3])
        THEN Spaced(parts)
        ELSE s

\* A value of the raw colour table: a string, an array of shades or one object.
ColorString(text) == [kind |-> "string", text |-> text, shades |-> <<>>, rgb |-> <<>>, hsl |-> <<>>]
ColorArray(shades) == [kind |-> "array", text |-> "", shades |-> shades, rgb |-> <<>>, hsl |-> <<>>]
ColorObject(rgb, hsl) == [kind |-> "object", text |-> "", shades |-> <<>>, rgb |-> rgb, hsl |-> hsl]
Shade(scale, rgb, hsl) == [scale |-> scale, rgb |-> rgb, hsl |-> hsl]

Rgb(r, g, b) == <<"r", "g", "b", "(">> \o r \o <<",">> \o g \o <<",">> \o b \o <<")">>
Hsl(h, sat, l) == <<"h", "s", "l", "(">> \o h \o <<",">> \o sat \o <<"%", ",">> \o l \o <<"%", ")">>

\* A value no property read of which is defined, and an unset variable: both
\* are left out by JSON.stringify.
CssUnset == <<Undefined>>

WithChannels(value) ==
    CASE value.kind = "string" ->
            [kind |-> "string", text |-> value.text, shades |-> <<>>, rgb |-> <<>>, hsl |-> <<>>,
             rgbChannel |-> CssUnset, hslChannel |-> CssUnset]
      [] value.kind = "array" ->
            [kind |-> "array", text |-> "",
             shades |-> [k \in 1..Len(value.shades) |->
                            [scale |-> value.shades[k].scale,
                             rgb |-> value.shades[k].rgb,
                             hsl |-> value.shades[k].hsl,
                             rgbChannel |-> RgbChannel(value.shades[k].rgb),
                             hslChannel |-> HslChannel(value.shades[k].hsl)]],
             rgb |-> <<>>, hsl |-> <<>>,
             rgbChannel |-> CssUnset, hslChannel |-> CssUnset]
      [] OTHER ->
            [kind |-> "object", text |-> "", shades |-> <<>>, rgb |-> value.rgb, hsl |-> value.hsl,
             rgbChannel |-> RgbChannel(value.rgb), hslChannel |-> HslChannel(value.hsl)]

\* colorsData of buildThemes.
ColorsData(table) == [c \in DOMAIN table |-> WithChannels(table[c])]

BaseOrder == <<"slate", "gray", "zinc", "neutral", "stone">>
BaseFamilies == SeqToSet(BaseOrder)

FamilyShades(h50, s50, h950, s950, l950, withDark) ==
    ColorArray(<<Shade(50, Rgb(<<"2", "4", "8">>, <<"2", "5", "0">>, <<"2", "5", "2">>),
                       Hsl(h50, s50, <<"9", "8">>))>>
               \o IF withDark
                  THEN <<Shade(950, Rgb(<<"2">>, <<"6">>, <<"2", "3">>), Hsl(h950, s950, l950))>>
                  ELSE <<>>)

ColorTable(stoneDark) ==
    [c \in {"inherit", "white"} \cup BaseFamilies |->
        CASE c = "inherit" -> ColorString("inherit")
          [] c = "white" -> ColorObject(Rgb(<<"2", "5", "5">>, <<"2", "5", "5">>, <<"2", "5", "5">>),
                                        Hsl(<<"0">>, <<"0">>, <<"1", "0", "0">>))
          [] c = "slate" -> FamilyShades(<<"2", "1", "0">>, <<"4", "0">>,
                                         <<"2", "2", "8", ".", "6">>, <<"8", "4">>, <<"4", ".", "9">>, TRUE)
          [] c = "gray" -> FamilyShades(<<"2", "1", "0">>, <<"2", "0">>,
                                        <<"2", "2", "4">>, <<"7", "1", ".", "4">>, <<"4", ".", "1">>, TRUE)
          [] c = "zinc" -> FamilyShades(<<"0">>, <<"0">>, <<"2", "4", "0">>, <<"1", "0">>, <<"3", ".", "9">>, TRUE)
          [] c = "neutral" -> FamilyShades(<<"0">>, <<"0">>, <<"0">>, <<"0">>, <<"3", ".", "9">>, TRUE)
          [] OTHER -> FamilyShades(<<"6", "0">>, <<"9", ".", "1">>,
                                   <<"2", "0">>, <<"1", "4", ".", "3">>, <<"4", ".", "1">>, stoneDark)]

\* The colour tables a run may import: the palette with every shade of
\* every family, and one whose stone family has no shade 950.
ColorTables == {"full", "sparse"}
ColorsOf(which) == ColorTable(which = "full")

\* A colour string as it is written in the table: a prefix, three tokens
\* with a separator between them, and a suffix.
Parts(prefix, toks, sep, suffix) == [prefix |-> prefix, toks |-> toks, sep |-> sep, suffix |-> suffix]
Written(p) == p.prefix \o p.toks[1] \o p.sep \o p.toks[2] \o p.sep \o p.toks[3] \o p.suffix

RgbPrefixes == {<<"r", "g", "b", "(">>, <<"R", "G", "B", "(">>, <<"r", "g", "b", "a", "(">>}
HslPrefixes == {<<"h", "s", "l", "(">>, <<"H", "S", "L", "(">>, <<"h", "s", "l", "a", "(">>}
Separators == {<<",">>, <<",", " ">>}
Suffixes == {<<")">>, <<>>}

\* Tokens of an rgb string: integers, and a decimal or nothing.
IntToks == {<<"1", "0">>, <<"2", "0">>, <<"3", "0">>}
RgbToks == IntToks \cup {<<"1", ".", "5">>, <<>>}

\* Tokens of an hsl string: numbers (runs of digits and dots), and one with
\* a unit or nothing; percentages, and one without its sign or a bare sign.
NumToks == {<<"2", "1", "0">>, <<"2", "2", "8", ".", "6">>}
HueToks == NumToks \cup {<<"2", "1", "0", "d", "e", "g">>, <<>>}
PctToks == {<<"5", "0", "%">>, <<"4", "0", "%">>, <<"4", ".", "9", "%">>}
LevelToks == PctToks \cup {<<"5", "0">>, <<"%">>}

RgbInputs ==
    {Parts(prefix, <<r, g, b>>, sep, suffix) :
        prefix \in RgbPrefixes, r \in RgbToks, g \in RgbToks, b \in RgbToks,
        sep \in Separators, suffix \in Suffixes}

HslInputs ==
    {Parts(prefix, <<h, sat, l>>, sep, suffix) :
        prefix \in HslPrefixes, h \in HueToks, sat \in LevelToks, l \in LevelToks,
        sep \in Separators, suffix \in Suffixes}

SomeRgb == Parts(<<"r", "g", "b", "(">>, <<<<"1", "0">>, <<"2", "0">>, <<"3", "0">>>>, <<",">>, <<")">>)
SomeHsl == Parts(<<"h", "s", "l", "(">>, <<<<"2", "1", "0">>, <<"5", "0", "%">>, <<"4", "0", "%">>>>,
                 <<",">>, <<")">>)

\* No further colour, and one further colour with its two strings.
NoSample == [present |-> FALSE, rgb |-> SomeRgb, hsl |-> SomeHsl]
Sample(rgb, hsl) == [present |-> TRUE, rgb |-> rgb, hsl |-> hsl]

\* The further colour is in the table twice: as the object "brand" and as
\* the one shade of the family "accent".
ImportedColors(which, extra) ==
    LET table == ColorsOf(which)
    IN  IF ~extra.present
        THEN table
        ELSE [c \in DOMAIN table \cup {"brand", "accent"} |->
                CASE c = "brand" -> ColorObject(Written(extra.rgb), Written(extra.hsl))
                  [] c = "accent" -> ColorArray(<<Shade(500, Written(extra.rgb), Written(extra.hsl))>>)
                  [] OTHER -> table[c]]

\* ------------------------------------------------------------------------
\* buildThemes: resolving the colour mapping for a base family.
\* ------------------------------------------------------------------------
Modes == {"light", "dark"}
ChartKeys == {"chart-1", "chart-2", "chart-3", "chart-4", "chart-5"}

\* key.startsWith("chart-")
IsChartKey(key) == key \in ChartKeys

\* Number.parseInt(scale)
ParseInt(text) ==
    CASE text = "50" -> 50
      [] text = "500" -> 500
      [] text = "950" -> 950
      [] text = "975" -> 975
      [] OTHER -> NaN

\* value.replace(/\{\{base\}\}-/g, `${baseColor}-`): the placeholder followed
\* by a dash, so not a placeholder that ends the value.
ReplaceBase(value, baseColor) ==
    [k \in 1..Len(value) |->
        IF value[k] = "{{base}}" /\ k < Len(value) THEN baseColor ELSE value[k]]

\* The text of a value: its parts with the dashes between them.
RECURSIVE JoinDash(_)
JoinDash(parts) ==
    IF Len(parts) = 1 THEN <<parts[1]>> ELSE <<parts[1], "-">> \o JoinDash(Tail(parts))

LookupMiss == [tag |-> "none", hslChannel |-> CssUnset]
LookupThrow == [tag |-> "throw", hslChannel |-> CssUnset]

\* const [resolvedBase, scale] = resolvedColor.split("-");
\* const color = scale ? colorsData[resolvedBase].find(...) : colorsData[resolvedBase];
\* tag "throw": .find is read of undefined, or is no function of a string or
\* an object (a TypeError); "none": color is undefined; "found": color is
\* truthy, with its hslChannel (undefined for a string or an array).
Lookup(colorsData, resolvedColor) ==
    LET resolvedBase == resolvedColor[1]
        scale == IF Len(resolvedColor) >= 2 THEN resolvedColor[2] ELSE Undefined
        known == resolvedBase \in DOMAIN colorsData
    IN  IF scale # Undefined /\ scale # ""
        THEN IF known /\ colorsData[resolvedBase].kind = "array"
             THEN LET shades == colorsData[resolvedBase].shades
                      hits == {k \in 1..Len(shades) : shades[k].scale = ParseInt(scale)}
                  IN  IF hits = {}
                      THEN LookupMiss
                      ELSE [tag |-> "found",
                            hslChannel |-> shades[CHOOSE k \in hits : \A j \in hits : k <= j].hslChannel]
             ELSE LookupThrow
        ELSE IF known
             THEN [tag |-> "found", hslChannel |-> colorsData[resolvedBase].hslChannel]
             ELSE LookupMiss

\* base.cssVars[mode][key] of colors/<base>.json (lines 364-383).
BaseVar(colorsData, value, key, baseColor) ==
    IF IsChartKey(key)
    THEN JoinDash(value)
    ELSE LET color == Lookup(colorsData, ReplaceBase(value, baseColor))
         IN  IF color.tag = "found" THEN color.hslChannel ELSE CssUnset

\* base.inlineColors[mode][key]
InlineColor(value, key, baseColor) ==
    IF IsChartKey(key) THEN CssUnset ELSE JoinDash(ReplaceBase(value, baseColor))

\* payload.cssVars[mode][key] of themes/<base>.json (lines 489-501).
ThemeVar(colorsData, value, key, baseColor) ==
    LET resolvedColor == ReplaceBase(value, baseColor)
        color == Lookup(colorsData, resolvedColor)
    IN  IF color.tag = "found" THEN color.hslChannel ELSE JoinDash(resolvedColor)

\* Whether resolving the family raises the TypeError of a lookup.
BaseThrows(colorsData, mapping, baseColor) ==
    \E mode \in DOMAIN mapping : \E key \in DOMAIN mapping[mode] :
        /\ ~IsChartKey(key)
        /\ Lookup(colorsData, ReplaceBase(mapping[mode][key], baseColor)).tag = "throw"

ThemeThrows(colorsData, mapping, baseColor) ==
    \E mode \in DOMAIN mapping : \E key \in DOMAIN mapping[mode] :
        Lookup(colorsData, ReplaceBase(mapping[mode][key], baseColor)).tag = "throw"

\* <%- value %>: an undefined value renders as the empty text.
Rendered(value) == IF value = CssUnset THEN <<>> ELSE value

\* The document colors/<base>.json.
BaseDoc(colorsData, mapping, baseColor) ==
    LET cssVars == [mode \in DOMAIN mapping |-> [key \in DOMAIN mapping[mode] |->
                        BaseVar(colorsData, mapping[mode][key], key, baseColor)]]
    IN  [inlineColors |-> [mode \in DOMAIN mapping |-> [key \in DOMAIN mapping[mode] |->
                              InlineColor(mapping[mode][key], key, baseColor)]],
         cssVars |-> cssVars,
         cssVarsTemplate |-> [mode \in DOMAIN mapping |-> [key \in DOMAIN mapping[mode] |->
                                  Rendered(cssVars[mode][key])]]]

\* baseColor.charAt(0).toUpperCase() + baseColor.slice(1)
Label(baseColor) ==
    CASE baseColor = "slate" -> "Slate"
      [] baseColor = "gray" -> "Gray"
      [] baseColor = "zinc" -> "Zinc"
      [] baseColor = "neutral" -> "Neutral"
      [] OTHER -> "Stone"

\* The document themes/<base>.json.
ThemeDoc(colorsData, mapping, baseColor) ==
    [name |-> baseColor,
     label |-> Label(baseColor),
     cssVars |-> [mode \in DOMAIN mapping |-> [key \in DOMAIN mapping[mode] |->
                      ThemeVar(colorsData, mapping[mode][key], key, baseColor)]]]

\* The mapping of the repository's shape: tokens of the base family, a plain
\* token, and literal chart values.
RealMapping ==
    [mode \in Modes |->
        [key \in {"background", "foreground", "chart-1"} |->
            CASE key = "background" -> IF mode = "light" THEN <<"white">> ELSE <<"{{base}}", "950">>
              [] key = "foreground" -> IF mode = "light" THEN <<"{{base}}", "950">> ELSE <<"{{base}}", "50">>
              [] OTHER -> IF mode = "light" THEN <<"12 76% 61%">> ELSE <<"220 70% 50%">>]]

\* Colour references a mapping may hold: resolving ones, one whose scale no
\* family has, one of an unknown family and a string-valued colour.
RefValues ==
    { <<"white">>, <<"{{base}}", "950">>, <<"{{base}}", "975">>,
      <<"ghost", "500">>, <<"inherit">> }

\* Chart colors do not have a 1-to-1 mapping with tailwind colors: literals.
ChartValues == { <<"12 76% 61%">> }

MappingInputs ==
    { [mode \in Modes |->
          [key \in {"background", "chart-1"} |->
              IF key = "background"
              THEN (IF mode = "light" THEN l ELSE d)
              ELSE c]] : l \in RefValues, d \in RefValues, c \in ChartValues }

\* ------------------------------------------------------------------------
\* Output files.
\* ------------------------------------------------------------------------
\* A file is there or not; its body is what writeFile was given. The output
\* directories themselves (the check-then-mkdir of lines 176, 246, 508, 522
\* and 525) hold no content and are not part of the state.
Absent == [exists |-> FALSE, body |-> <<>>]
FileOf(body) == [exists |-> TRUE, body |-> <<body>>]
Body(file) == file.body[1]

\* ------------------------------------------------------------------------
\* The top-level pipeline (lines 520-552).
\* ------------------------------------------------------------------------
Fresh ==
    /\ pc = "start"
    /\ i = 1
    /\ pending = {}
    /\ results = <<>>
    /\ bi = 1
    /\ stderr = <<>>
    /\ stdout = <<>>
    /\ exitCode = NoExit
    /\ touched = {}

EmptyOutput ==
    /\ indexTs = Absent
    /\ indexJson = Absent
    /\ blockTs = Absent
    /\ styles = [n \in ItemNames |-> Absent]
    /\ colorsIndex = Absent
    /\ colorsDir = [b \in BaseFamilies |-> Absent]
    /\ themesCss = Absent
    /\ themesDir = [b \in BaseFamilies |-> Absent]

Init ==
    /\ registry \in RegistryInputs
    /\ disk \in DiskInputs
    /\ colors = "full"
    /\ sample = NoSample
    /\ colorMapping = RealMapping
    /\ runs = 1
    /\ Fresh
    /\ EmptyOutput

InitThemes ==
    /\ registry = <<Item("a", "registry:ui", Files(<<FA, FM>>)), Item("l", "registry:lib", Files(<<FA>>))>>
    /\ disk \in DiskInputs
    /\ colors \in ColorTables
    /\ sample = NoSample
    /\ colorMapping \in MappingInputs
    /\ runs = 1
    /\ Fresh
    /\ EmptyOutput

\* One run over a table with one more colour, whose rgb string or whose hsl
\* string is any of the written forms.
InitColors ==
    /\ registry = <<Item("a", "registry:ui", Files(<<FA, FM>>)), Item("l", "registry:lib", Files(<<FA>>))>>
    /\ disk = DiskOf({<<ContentDir, "ui/a.vue">>, <<ContentDir, "ui/s.vue">>})
    /\ colors = "full"
    /\ sample \in {Sample(rgb, SomeHsl) : rgb \in RgbInputs} \cup {Sample(SomeRgb, hsl) : hsl \in HslInputs}
    /\ colorMapping = RealMapping
    /\ runs = 1
    /\ Fresh
    /\ EmptyOutput

\* Aggregate as it would be without the process.exit(1) of line 539: the
\* validation error is logged and the passes run all the same.
AggregateNoExit ==
    /\ pc = "start"
    /\ \E crawl \in IoOutcomes :
        IF crawl = "throw"
        THEN /\ Fail("CrawlError")
             /\ UNCHANGED <<inputVars, loopVars, registryFiles, styles, themeFiles, stdout, touched, runs>>
        ELSE /\ stderr' = IF RegistryOk(registry) THEN stderr ELSE Append(stderr, "ZodError")
             /\ pc' = "buildRegistry"
             /\ UNCHANGED <<inputVars, loopVars, registryFiles, styles, themeFiles, stdout, exitCode,
                            touched, runs>>

\* const content = await crawlContent();
\* const result = registrySchema.safeParse([...registry, ...content]);
\* if (!result.success) { console.error(result.error); process.exit(1); }
Aggregate ==
    /\ pc = "start"
    /\ \E crawl \in IoOutcomes :
        IF crawl = "throw"
        THEN /\ Fail("CrawlError")
             /\ UNCHANGED <<inputVars, loopVars, registryFiles, styles, themeFiles, stdout, touched, runs>>
        ELSE IF ~RegistryOk(registry)
        THEN /\ Fail("ZodError")
             /\ UNCHANGED <<inputVars, loopVars, registryFiles, styles, themeFiles, stdout, touched, runs>>
        ELSE /\ pc' = "buildRegistry"
             /\ UNCHANGED <<inputVars, loopVars, registryFiles, styles, themeFiles, stderr, stdout,
                            exitCode, touched, runs>>

\* await buildRegistry(result.data): index.json is deleted and written, then
\* index.ts is deleted and written.
BuildRegistry ==
    /\ pc = "buildRegistry"
    /\ \E io \in IoOutcomes :
        IF io = "throw"
        THEN /\ indexJson' = Absent
             /\ touched' = touched \cup {<<"index.json">>}
             /\ Fail("EIO")
             /\ UNCHANGED <<inputVars, loopVars, indexTs, blockTs, styles, themeFiles, stdout, runs>>
        ELSE /\ indexJson' = FileOf(IndexJsonItems(registry))
             /\ indexTs' = FileOf(IndexEntries(registry))
             /\ touched' = touched \cup {<<"index.json">>, <<"index.ts">>}
             /\ pc' = "buildBlockRegistry"
             /\ UNCHANGED <<inputVars, loopVars, blockTs, styles, themeFiles, stderr, stdout,
                            exitCode, runs>>

\* buildBlockRegistry as it would be with its write error caught and
\* logged inside the pass: the pipeline goes on.
BuildBlockRegistrySwallows ==
    /\ pc = "buildBlockRegistry"
    /\ \E io \in IoOutcomes :
        IF io = "throw"
        THEN /\ blockTs' = Absent
             /\ touched' = touched \cup {<<"block.ts">>}
             /\ stderr' = Append(stderr, "EIO")
             /\ pc' = "buildStyles"
             /\ UNCHANGED <<inputVars, loopVars, indexTs, indexJson, styles, themeFiles, stdout,
                            exitCode, runs>>
        ELSE /\ blockTs' = FileOf(BlockEntries(registry))
             /\ touched' = touched \cup {<<"block.ts">>}
             /\ pc' = "buildStyles"
             /\ UNCHANGED <<inputVars, loopVars, indexTs, indexJson, styles, themeFiles, stderr,
                            stdout, exitCode, runs>>

\* await buildBlockRegistry(result.data)
BuildBlockRegistry ==
    /\ pc = "buildBlockRegistry"
    /\ \E io \in IoOutcomes :
        IF io = "throw"
        THEN /\ blockTs' = Absent
             /\ touched' = touched \cup {<<"block.ts">>}
             /\ Fail("EIO")
             /\ UNCHANGED <<inputVars, loopVars, indexTs, indexJson, styles, themeFiles, stdout, runs>>
        ELSE /\ blockTs' = FileOf(BlockEntries(registry))
             /\ touched' = touched \cup {<<"block.ts">>}
             /\ pc' = "buildStyles"
             /\ UNCHANGED <<inputVars, loopVars, indexTs, indexJson, styles, themeFiles, stderr,
                            stdout, exitCode, runs>>

\* ------------------------------------------------------------------------
\* buildStyles (lines 172-238).
\* ------------------------------------------------------------------------
UndefinedSlot ==
    [defined |-> FALSE, path |-> Undefined, type |-> Undefined, content |-> <<>>, target |-> ""]

\* The file the read opens: hook files under the working directory, the
\* others under the content directory.
ReadPath(f) ==
    IF TypeOf(f) = "registry:hook" THEN <<Cwd, PathOf(f)>> ELSE <<ContentDir, PathOf(f)>>

\* "ok", or the error the read raises: path.join throws on an undefined
\* path, fs.readFile rejects for a file that is not there.
ReadError(d, f) ==
    IF PathOf(f) = Undefined THEN "ERR_INVALID_ARG_TYPE"
    ELSE IF ReadPath(f) \notin DOMAIN d \/ d[ReadPath(f)] = <<NoFile>> THEN "ENOENT"
    ELSE "ok"

\* What the async callback of one file returns.
ReadEntry(d, f) ==
    IF ReadError(d, f) # "ok"
    THEN UndefinedSlot
    ELSE [defined |-> TRUE, path |-> PathOf(f), type |-> TypeOf(f),
          content |-> d[ReadPath(f)], target |-> OrEmpty(TargetOf(f))]

\* The entry schema on the assembled payload {...item, files}.
PayloadOk(item, files) ==
    /\ item.name # Undefined
    /\ item.type \in ItemTypes
    /\ files.defined =>
          \A k \in 1..Len(files.refs) :
              /\ files.refs[k].defined
              /\ files.refs[k].path # Undefined
              /\ files.refs[k].type \in ItemTypes

\* for (const item of registry): the allow-list test, and the reads of the
\* item's files issued together (Promise.all over item.files.map).
StylesItem ==
    /\ pc = "buildStyles"
    /\ IF i > Len(registry)
       THEN /\ pc' = "buildThemes"
            /\ UNCHANGED <<i, pending, results>>
       ELSE IF registry[i].type \notin REGISTRY_INDEX_WHITELIST
       THEN /\ i' = i + 1
            /\ UNCHANGED <<pc, pending, results>>
       ELSE /\ pending' = 1..Len(registry[i].files.refs)
            /\ results' = [k \in 1..Len(registry[i].files.refs) |-> UndefinedSlot]
            /\ pc' = "stylesReading"
            /\ UNCHANGED i
    /\ UNCHANGED <<inputVars, bi, registryFiles, styles, themeFiles, stderr, stdout, exitCode,
                   touched, runs>>

\* The slot a result list filled in order of arrival would give.
SlotByArrival(k) == Len(results) - Cardinality(pending) + 1

\* The slot of the result list a settled read fills: its own.
Slot(k) == k

\* One read settles, in any order: its entry, or undefined after
\* console.error(error).
ReadSettle ==
    /\ pc = "stylesReading"
    /\ \E k \in pending :
        LET f == registry[i].files.refs[k]
        IN  /\ results' = [results EXCEPT ![Slot(k)] = ReadEntry(disk, f)]
            /\ stderr' = IF ReadError(disk, f) = "ok" THEN stderr
                         ELSE Append(stderr, ReadError(disk, f))
            /\ pending' = pending \ {k}
    /\ UNCHANGED <<inputVars, pc, i, bi, registryFiles, styles, themeFiles, stdout, exitCode,
                   touched, runs>>

\* The write step as it would be if an invalid payload were reported.
StylesWriteLogsSkip ==
    /\ pc = "stylesReading"
    /\ pending = {}
    /\ LET item == registry[i]
           files == IF item.files.defined THEN Files(results) ELSE NoFiles
       IN  IF ~PayloadOk(item, files)
           THEN /\ stderr' = Append(stderr, "ZodError")
                /\ i' = i + 1
                /\ pc' = "buildStyles"
                /\ UNCHANGED <<styles, exitCode, touched>>
           ELSE /\ styles' = [styles EXCEPT ![item.name] =
                                FileOf([name |-> item.name, type |-> item.type, files |-> files])]
                /\ touched' = touched \cup {<<"styles", item.name>>}
                /\ i' = i + 1
                /\ pc' = "buildStyles"
                /\ UNCHANGED <<stderr, exitCode>>
    /\ UNCHANGED <<inputVars, pending, results, bi, registryFiles, themeFiles, stdout, runs>>

\* After the join: the payload is validated and, when valid, written.
StylesWrite ==
    /\ pc = "stylesReading"
    /\ pending = {}
    /\ LET item == registry[i]
           files == IF item.files.defined THEN Files(results) ELSE NoFiles
       IN  IF ~PayloadOk(item, files)
           THEN /\ i' = i + 1
                /\ pc' = "buildStyles"
                /\ UNCHANGED <<styles, stderr, exitCode, touched>>
           ELSE \E io \in IoOutcomes :
                IF io = "throw"
                THEN /\ Fail("EIO")
                     /\ UNCHANGED <<i, styles, touched>>
                ELSE /\ styles' = [styles EXCEPT ![item.name] =
                                     FileOf([name |-> item.name, type |-> item.type, files |-> files])]
                     /\ touched' = touched \cup {<<"styles", item.name>>}
                     /\ i' = i + 1
                     /\ pc' = "buildStyles"
                     /\ UNCHANGED <<stderr, exitCode>>
    /\ UNCHANGED <<inputVars, pending, results, bi, registryFiles, themeFiles, stdout, runs>>

\* ------------------------------------------------------------------------
\* buildThemes (lines 243-518).
\* ------------------------------------------------------------------------
\* rimraf of public/r/colors, then colors/index.json is written.
ThemesIndex ==
    /\ pc = "buildThemes"
    /\ colorsDir' = [b \in BaseFamilies |-> Absent]
    /\ \E io \in IoOutcomes :
        IF io = "throw"
        THEN /\ colorsIndex' = Absent
             /\ Fail("EIO")
             /\ UNCHANGED bi
        ELSE /\ colorsIndex' = FileOf(ColorsData(ImportedColors(colors, sample)))
             /\ bi' = 1
             /\ pc' = "themesLoop"
             /\ UNCHANGED <<stderr, exitCode>>
    /\ touched' = touched \cup {<<"colors", "index">>} \cup {<<"colors", b>> : b \in BaseFamilies}
    /\ UNCHANGED <<inputVars, i, pending, results, registryFiles, styles, themesCss, themesDir,
                   stdout, runs>>

\* The theme documents the inner loop leaves: those of the families before
\* the first one whose resolution throws.
ThemesWritten(colorsData, mapping) ==
    LET bad == {k \in 1..Len(BaseOrder) : ThemeThrows(colorsData, mapping, BaseOrder[k])}
    IN  [b \in BaseFamilies |->
            IF \E k \in 1..Len(BaseOrder) :
                  /\ BaseOrder[k] = b
                  /\ \A j \in bad : k < j
            THEN FileOf(ThemeDoc(colorsData, mapping, b))
            ELSE Absent]

\* One pass of the outer loop over the base families: colors/<base>.json,
\* then themes.css, then public/r/themes deleted and themes/<family>.json
\* written for all five families (the inner loop is nested in the outer).
ThemesBase ==
    /\ pc = "themesLoop"
    /\ LET baseColor == BaseOrder[bi]
           colorsData == ColorsData(ImportedColors(colors, sample))
       IN  IF BaseThrows(colorsData, colorMapping, baseColor)
           THEN /\ Fail("TypeError")
                /\ UNCHANGED <<bi, colorsDir, themesCss, themesDir, touched>>
           ELSE \E io \in IoOutcomes :
                IF io = "throw"
                THEN /\ Fail("EIO")
                     /\ UNCHANGED <<bi, colorsDir, themesCss, themesDir, touched>>
                ELSE /\ colorsDir' = [colorsDir EXCEPT ![baseColor] =
                                        FileOf(BaseDoc(colorsData, colorMapping, baseColor))]
                     /\ themesCss' = FileOf(<<"baseColors">>)
                     /\ themesDir' = ThemesWritten(colorsData, colorMapping)
                     /\ touched' = touched \cup {<<"colors", baseColor>>, <<"themes.css">>}
                                           \cup {<<"themes", b>> : b \in BaseFamilies}
                     /\ IF \E b \in BaseFamilies : ThemeThrows(colorsData, colorMapping, b)
                        THEN /\ Fail("TypeError")
                             /\ UNCHANGED bi
                        ELSE /\ bi' = bi + 1
                             /\ pc' = IF bi = Len(BaseOrder) THEN "success" ELSE "themesLoop"
                             /\ UNCHANGED <<stderr, exitCode>>
    /\ UNCHANGED <<inputVars, i, pending, results, registryFiles, styles, colorsIndex, stdout, runs>>

\* console.log of the success marker; the script ends and the process exits 0.
Succeed ==
    /\ pc = "success"
    /\ stdout' = Append(stdout, "Done!")
    /\ exitCode' = 0
    /\ pc' = "exited"
    /\ UNCHANGED <<inputVars, loopVars, registryFiles, styles, themeFiles, stderr, touched, runs>>

\* After a run that succeeded the script is run again, over another item
\* list; the output of the earlier runs is still on disk.
Rerun ==
    /\ pc = "exited"
    /\ exitCode = 0
    /\ runs < MaxRuns
    /\ runs' = runs + 1
    /\ registry' \in RegistryInputs
    /\ pc' = "start"
    /\ i' = 1
    /\ pending' = {}
    /\ results' = <<>>
    /\ bi' = 1
    /\ stderr' = <<>>
    /\ stdout' = <<>>
    /\ exitCode' = NoExit
    /\ touched' = {}
    /\ UNCHANGED <<disk, colors, sample, colorMapping, registryFiles, styles, themeFiles>>

Run ==
    \/ Aggregate
    \/ BuildRegistry
    \/ BuildBlockRegistry
    \/ StylesItem
    \/ ReadSettle
    \/ StylesWrite
    \/ ThemesIndex
    \/ ThemesBase
    \/ Succeed

Next == Run \/ Rerun

\* One run over any item list, with the repository's colours.
Spec == Init /\ [][Run]_vars

\* Runs that follow one another over the same output directories.
SpecRerun == Init /\ [][Next]_vars

\* One run over any colour mapping.
SpecThemes == InitThemes /\ [][Run]_vars

\* One run over any written form of a colour string.
SpecColors == InitColors /\ [][Run]_vars

\* ------------------------------------------------------------------------
\* Properties.
\* ------------------------------------------------------------------------
Whitelisted(item) == item.type \in REGISTRY_INDEX_WHITELIST

Readable(f) == ReadError(disk, f) = "ok"

\* Errors that leave the pipeline, as opposed to the logged read errors.
EscapingErrors == {"CrawlError", "ZodError", "EIO", "TypeError"}
NoErrorEscaped == \A k \in 1..Len(stderr) : stderr[k] \notin EscapingErrors

\* The item buildStyles has just finished with.
JustStyled(k) == pc = "buildStyles" /\ i = k + 1 /\ k \in 1..Len(registry)

\* An allow-listed item with two files, one readable and one not.
OneMissing(item) ==
    /\ Whitelisted(item)
    /\ item.files.defined
    /\ Len(item.files.refs) = 2
    /\ Cardinality({k \in 1..2 : Readable(item.files.refs[k])}) = 1

ReadableEntries(item) ==
    LET kept == SelectSeq(item.files.refs, Readable)
    IN  [k \in 1..Len(kept) |-> ReadEntry(disk, kept[k])]

\* C1: in buildStyles, an allow-listed item with one readable and one
\* unreadable file gets a style document whose files are exactly the
\* readable file's entry, and the run still ends with exit code 0.
C1_MissingFileDropped ==
    /\ \A k \in 1..Len(registry) :
          (JustStyled(k) /\ OneMissing(registry[k])) =>
              /\ styles[registry[k].name].exists
              /\ Body(styles[registry[k].name]).files = Files(ReadableEntries(registry[k]))
    /\ (pc = "exited" /\ NoErrorEscaped /\ \E k \in 1..Len(registry) : OneMissing(registry[k]))
          => exitCode = 0

ZeroRefs(item) == ~item.files.defined \/ Len(item.files.refs) = 0

HasEntry(file, name) ==
    \E k \in 1..Len(Body(file)) : Body(file)[k].name = name

\* The names of the entries of an index module, in order.
EntryNames(file) == [k \in 1..Len(Body(file)) |-> Body(file)[k].name]

NamesOf(items) == [k \in 1..Len(items) |-> items[k].name]

\* C2 as stated: an item with no file reference, its files absent or its
\* files list empty, has no entry under its name in the index module nor in
\* the block index module.
C2_ZeroRefsNoEntry ==
    \A k \in 1..Len(registry) :
        ZeroRefs(registry[k]) =>
            /\ indexTs.exists => ~HasEntry(indexTs, registry[k].name)
            /\ blockTs.exists => ~HasEntry(blockTs, registry[k].name)

\* C2, amended: the entries of the index module are, in order, those of the
\* items whose files list is present, an empty list included; the entries of
\* the block index module are those of the blocks among them. So an item
\* whose files are absent gets no entry, and an item whose files list is
\* empty gets one.
C2_AbsentFilesNoEntry ==
    /\ indexTs.exists =>
          EntryNames(indexTs) = NamesOf(SelectSeq(registry, LAMBDA it : it.files.defined))
    /\ blockTs.exists =>
          EntryNames(blockTs) =
              NamesOf(SelectSeq(registry, LAMBDA it : it.files.defined /\ it.type = "registry:block"))

\* C2's case: both modules written for a list with an item without files and
\* a block with an empty files list, which alone has an entry.
C2_Witness ==
    /\ indexTs.exists
    /\ blockTs.exists
    /\ \E k \in 1..Len(registry) : ~registry[k].files.defined
    /\ \E k \in 1..Len(registry) :
          /\ registry[k].files = Files(<<>>)
          /\ registry[k].type = "registry:block"
    /\ Len(Body(indexTs)) = 1
    /\ Len(Body(blockTs)) = 1

\* The component path the claim gives an item that has an entry.
ClaimedComponentPath(item) ==
    IF Len(item.files.refs) > 0
    THEN <<ImportRoot, item.files.refs[1].path>>
    ELSE <<ImportRoot, TypeSuffix(item.type), "/", item.name>>

ClaimedComponents(items) == [k \in 1..Len(items) |-> ClaimedComponentPath(items[k])]

EntryComponents(file) == [k \in 1..Len(Body(file)) |-> Body(file)[k].component]

\* C3: the component path of every entry of the index module and of the
\* block index module is the content root followed by the path of the
\* item's first file reference, bare or structured, when the files list is
\* not empty, and the conventional content-root/type/name path otherwise.
C3_ComponentPath ==
    /\ indexTs.exists =>
          EntryComponents(indexTs) =
              ClaimedComponents(SelectSeq(registry, LAMBDA it : it.files.defined))
    /\ blockTs.exists =>
          EntryComponents(blockTs) =
              ClaimedComponents(SelectSeq(registry,
                  LAMBDA it : it.files.defined /\ it.type = "registry:block"))

\* C4: for each of the five base families, every mode and every key of the
\* colour mapping, the value colors/<family>.json holds in cssVars is the
\* value themes/<family>.json holds in cssVars (chart keys included; a key
\* whose lookup finds no token is set alike, or unset in both).
C4_SamePaletteBothPaths ==
    \A b \in BaseFamilies :
        (colorsDir[b].exists /\ themesDir[b].exists) =>
            \A mode \in DOMAIN colorMapping : \A key \in DOMAIN colorMapping[mode] :
                Body(colorsDir[b]).cssVars[mode][key] = Body(themesDir[b]).cssVars[mode][key]

\* C5: when the merged list fails the top-level validation, the error is
\* logged, the run ends with exit code 1, no render pass runs and no output
\* file is written or deleted.
C5_ValidationFatal ==
    (pc # "start" /\ ~RegistryOk(registry)) =>
        /\ pc = "exited"
        /\ exitCode = 1
        /\ stderr \in {<<"ZodError">>, <<"CrawlError">>}
        /\ stdout = <<>>
        /\ touched = {}
        /\ EmptyOutput

\* C5's case: a list with an item without a name was validated and the run
\* has ended on the validation error.
C5_Witness ==
    /\ pc = "exited"
    /\ \E k \in 1..Len(registry) : registry[k].name = Undefined
    /\ stderr = <<"ZodError">>
    /\ exitCode = 1

\* C6: after a run, every file under the styles directory is <name>.json
\* for the name of an item of that run's validated list.
C6_StylesNamedAfterItems ==
    (pc = "exited" /\ exitCode = 0) =>
        \A n \in ItemNames :
            styles[n].exists => \E k \in 1..Len(registry) : registry[k].name = n

\* C7: the reads of one item settle in any order, and each fills the slot of
\* its own file only: a settled slot holds the entry of its file (undefined
\* for a failed read), an unsettled one is still empty, so that at the join
\* the files array is that of the item's file list in its order; and that is
\* the array of the document written.
C7_ReadOrderIrrelevant ==
    /\ pc = "stylesReading" =>
          /\ Len(results) = Len(registry[i].files.refs)
          /\ \A k \in 1..Len(results) :
                results[k] = IF k \in pending
                             THEN UndefinedSlot
                             ELSE ReadEntry(disk, registry[i].files.refs[k])
    /\ \A k \in 1..Len(registry) :
          (JustStyled(k) /\ Whitelisted(registry[k]) /\ registry[k].files.defined
              /\ \A j \in 1..Len(registry[k].files.refs) : Readable(registry[k].files.refs[j])) =>
              /\ styles[registry[k].name].exists
              /\ Body(styles[registry[k].name]).files =
                    Files([j \in 1..Len(registry[k].files.refs) |->
                              ReadEntry(disk, registry[k].files.refs[j])])

\* C7's case: of two reads with different entries the second has settled
\* first.
C7_Witness ==
    /\ pc = "stylesReading"
    /\ Len(results) = 2
    /\ pending = {1}
    /\ results[2].defined
    /\ results[2] # ReadEntry(disk, registry[i].files.refs[1])

\* What the claim calls a reference that resolves to a colour token: a plain
\* name of a colour object, or a family and a scale one of its shades has.
ClaimedToken(table, ref) ==
    IF ref[1] \notin DOMAIN table THEN CssUnset
    ELSE IF Len(ref) = 1
    THEN (IF table[ref[1]].kind = "object" THEN HslChannel(table[ref[1]].hsl) ELSE CssUnset)
    ELSE IF table[ref[1]].kind # "array" THEN CssUnset
    ELSE LET shades == table[ref[1]].shades
             hits == {k \in 1..Len(shades) : shades[k].scale = ParseInt(ref[2])}
         IN  IF hits = {} THEN CssUnset
             ELSE HslChannel(shades[CHOOSE k \in hits : \A j \in hits : k <= j].hsl)

\* C8: for every base family, mode and semantic variable holding a colour
\* reference: if the substituted reference resolves to no token, the variable
\* is left unset and the run does not fail; if it resolves, the variable is
\* the token's HSL channel string. In both documents.
C8_UnresolvedLeftUnset ==
    /\ \A k \in 1..Len(stderr) : stderr[k] # "TypeError"
    /\ \A b \in BaseFamilies : \A mode \in DOMAIN colorMapping :
          \A key \in DOMAIN colorMapping[mode] \ ChartKeys :
              LET token == ClaimedToken(ColorsOf(colors), ReplaceBase(colorMapping[mode][key], b))
              IN  /\ colorsDir[b].exists => Body(colorsDir[b]).cssVars[mode][key] = token
                  /\ themesDir[b].exists => Body(themesDir[b]).cssVars[mode][key] = token

\* The assembled payload of the item whose reads have all settled.
Assembled == IF registry[i].files.defined THEN Files(results) ELSE NoFiles

\* C9: an invalid payload is skipped in silence: no file is written, nothing
\* is logged, the exit code stays and the loop goes on to the next item. A
\* style document is only ever written for the item at hand, which is of an
\* allow-listed type.
C9_InvalidPayloadSkipped ==
    /\ [][(pc = "stylesReading" /\ pending = {} /\ ~PayloadOk(registry[i], Assembled)) =>
            /\ styles' = styles
            /\ stderr' = stderr
            /\ stdout' = stdout
            /\ exitCode' = exitCode
            /\ pc' = "buildStyles"
            /\ i' = i + 1]_vars
    /\ [][styles' # styles =>
            /\ pc = "stylesReading"
            /\ Whitelisted(registry[i])
            /\ \A n \in ItemNames : n # registry[i].name => styles'[n] = styles[n]]_vars

\* C9's case: a run that ended with exit code 0 over a list whose first item
\* had an unreadable file and got no document, and whose second item got one.
C9_Witness ==
    /\ pc = "exited"
    /\ exitCode = 0
    /\ Len(registry) = 2
    /\ Whitelisted(registry[1])
    /\ \E k \in 1..Len(registry[1].files.refs) : ~Readable(registry[1].files.refs[k])
    /\ ~styles[registry[1].name].exists
    /\ styles[registry[2].name].exists

\* The place of a position of the pipeline in the order of the stages.
Rank(p) ==
    CASE p = "start" -> 0
      [] p = "buildRegistry" -> 1
      [] p = "buildBlockRegistry" -> 2
      [] p \in {"buildStyles", "stylesReading"} -> 3
      [] p \in {"buildThemes", "themesLoop"} -> 4
      [] p = "success" -> 5
      [] OTHER -> 6

\* The output files a stage writes or deletes.
StageFiles(rank) ==
    CASE rank = 1 -> {<<"index.json">>, <<"index.ts">>}
      [] rank = 2 -> {<<"block.ts">>}
      [] rank = 3 -> {<<"styles", n>> : n \in ItemNames}
      [] rank = 4 -> {<<"colors", "index">>, <<"themes.css">>}
                         \cup {<<"colors", b>> : b \in BaseFamilies}
                         \cup {<<"themes", b>> : b \in BaseFamilies}
      [] OTHER -> {}

RegistryDone ==
    /\ indexJson = FileOf(IndexJsonItems(registry))
    /\ indexTs = FileOf(IndexEntries(registry))

BlockDone == blockTs = FileOf(BlockEntries(registry))

StylesDone == i = Len(registry) + 1 /\ pending = {}

ThemesDone ==
    /\ colorsIndex.exists
    /\ themesCss.exists
    /\ \A b \in BaseFamilies : colorsDir[b].exists /\ themesDir[b].exists

\* C10: the stages run in sequence, aggregation and validation, then
\* buildRegistry, buildBlockRegistry, buildStyles, buildThemes; a stage
\* touches only its own files and starts only when the one before it has
\* written all of its own; the marker is printed and the exit code is 0 only
\* after all four passes; an error that leaves a stage ends the run with
\* exit code 1, and nothing runs after the exit.
C10_StagesInSequence ==
    /\ [][pc' # pc => (pc' = "exited" \/ Rank(pc') \in {Rank(pc), Rank(pc) + 1})]_vars
    /\ [][touched' \ touched \subseteq StageFiles(Rank(pc))]_vars
    /\ [](Rank(pc) \in 2..5 => RegistryDone)
    /\ [](Rank(pc) \in 3..5 => BlockDone)
    /\ [](Rank(pc) \in 4..5 => StylesDone)
    /\ [](Rank(pc) = 5 => ThemesDone)
    /\ [](exitCode = 0 =>
            /\ stdout = <<"Done!">>
            /\ NoErrorEscaped
            /\ RegistryDone /\ BlockDone /\ StylesDone /\ ThemesDone)
    /\ [](stdout # <<>> => pc = "exited" /\ exitCode = 0)
    /\ [](~NoErrorEscaped => pc = "exited" /\ exitCode = 1 /\ stdout = <<>>)
    /\ [][pc = "exited" => UNCHANGED vars]_vars

\* C10's case: a write of buildStyles failed after both index modules were
\* written; the run has ended with exit code 1 and buildThemes never ran.
C10_Witness ==
    /\ pc = "exited"
    /\ exitCode = 1
    /\ stderr = <<"EIO">>
    /\ RegistryDone
    /\ BlockDone
    /\ i = 2
    /\ Len(registry) = 2
    /\ styles[registry[1].name] = Absent
    /\ ~colorsIndex.exists
    /\ stdout = <<>>

\* The written form is exactly rgb(<int>,<int>,<int>), and exactly
\* hsl(<number>,<number>%,<number>%), a number being a run of digits and dots.
ExactRgb(p) ==
    /\ p.prefix = <<"r", "g", "b", "(">>
    /\ p.sep = <<",">>
    /\ p.suffix = <<")">>
    /\ \A k \in 1..3 : p.toks[k] \in IntToks

ExactHsl(p) ==
    /\ p.prefix = <<"h", "s", "l", "(">>
    /\ p.sep = <<",">>
    /\ p.suffix = <<")">>
    /\ p.toks[1] \in NumToks
    /\ p.toks[2] \in PctToks
    /\ p.toks[3] \in PctToks

\* The three tokens separated by single spaces.
Triple(p) == p.toks[1] \o <<" ">> \o p.toks[2] \o <<" ">> \o p.toks[3]

\* The channel the index is to hold for a colour string: the triple when the
\* string has the exact form, and otherwise the string as it was written,
\* which is not the triple.
ChannelAsClaimed(channel, p, exact) ==
    IF exact
    THEN channel = Triple(p)
    ELSE channel = Written(p) /\ channel # Triple(p)

\* The entries of colors/index.json made from the further colour: the object
\* and the shade of the family.
SampleEntries == {Body(colorsIndex)["brand"], Body(colorsIndex)["accent"].shades[1]}

\* C11: in colors/index.json the channel of an rgb string of the exact form
\* rgb(<int>,<int>,<int>) is the three integers separated by single spaces,
\* and the channel of hsl(<number>,<number>%,<number>%) is the three tokens,
\* percent signs kept, separated by single spaces; the channel of a string
\* that has not the exact form is no such triple, it is the string as
\* written.  This holds for an object and for a shade of an array alike.
C11_ChannelStrings ==
    (colorsIndex.exists /\ sample.present) =>
        \A entry \in SampleEntries :
            /\ entry.rgb = Written(sample.rgb)
            /\ entry.hsl = Written(sample.hsl)
            /\ ChannelAsClaimed(entry.rgbChannel, sample.rgb, ExactRgb(sample.rgb))
            /\ ChannelAsClaimed(entry.hslChannel, sample.hsl, ExactHsl(sample.hsl))

\* C11's case: the index was written from a table whose further colour has
\* the rgb string "rgb(10, 20, 30)", spaces after the commas, and the hsl
\* string "hsl(210,50%,40%)"; the hsl channel is "210 50% 40%" and the rgb
\* channel is the string as written.
C11_Witness ==
    /\ colorsIndex.exists
    /\ sample.present
    /\ sample.rgb = Parts(<<"r", "g", "b", "(">>, <<<<"1", "0">>, <<"2", "0">>, <<"3", "0">>>>,
                          <<",", " ">>, <<")">>)
    /\ sample.hsl = SomeHsl
    /\ \A entry \in SampleEntries :
        /\ entry.hslChannel = <<"2", "1", "0", " ", "5", "0", "%", " ", "4", "0", "%">>
        /\ entry.rgbChannel = <<"r", "g", "b", "(", "1", "0", ",", " ", "2", "0", ",", " ", "3", "0", ")">>

====
